---- MODULE Spec2Model ----
(***************************************************************************)
(* Model of src/bot/bot.py: the TradingBot class.                          *)
(*                                                                         *)
(*   run_trading_bot  the endless trading loop started by __main__         *)
(*   create_order     the order executor (entry limit order, fill          *)
(*                    polling, OCO exit order)                             *)
(*   the exchange     the account's orders, changed by fills, cancels,     *)
(*                    rejections and exit fills                            *)
(*                                                                         *)
(* Prices are whole quote units; stop-loss and take-profit, which the      *)
(* code computes as entry_price * 0.995 and entry_price * 1.01, and the    *)
(* trade size are kept in thousandths so that they stay integers.          *)
(* A VWAP value is a rational <<numerator, denominator>>; the pair with    *)
(* denominator 0 is the float NaN that pandas yields for a rolling window  *)
(* that is not full or for 0.0 / 0.0.                                      *)
(***************************************************************************)
EXTENDS Integers, Sequences, FiniteSets

VARIABLES
    env,          \* which of the two credential variables the environment sets
    lpc,          \* run_trading_bot: the statement the loop is at
    rows,         \* len(data) of the frame fetched in the current cycle
    exc,          \* the exception the loop last caught ("None" before any)
    vwap,         \* the four values read at lines 151-154
    signal,       \* outcome of the test at line 157 in the current cycle
    out,          \* the last line written to stdout
    orders,       \* the exchange: entry orders by id
    ocoReqs,      \* the exchange: OCO exit orders, in submission order
    epc,          \* create_order: the statement the executor is at
    entry_price,  \* create_order locals (lines 66-75, 81, 90, 96)
    stop_loss,
    take_profit,
    trade_size,
    limit_order,
    order_id,
    open_orders,
    placeLog,     \* outcomes of the placement calls of this invocation
    polled,       \* whether this invocation made an order-listing query
    ocoSent       \* OCO submissions made by this invocation

vars == <<env, rows, lpc, exc, vwap, signal, out, orders, ocoReqs, epc, entry_price,
          stop_loss, take_profit, trade_size, limit_order, order_id,
          open_orders, placeLog, polled, ocoSent>>

loopVars == <<env, rows, lpc, exc, vwap, signal>>

execLocals == <<entry_price, stop_loss, take_profit, trade_size,
                limit_order, order_id, open_orders, placeLog, polled, ocoSent>>

execVars == <<epc, execLocals>>

----------------------------------------------------------------------------
(* Bounds of the model *)

\* entry orders the exchange account can hold
MaxOrders == 2
\* highest price level of a candle
MaxPx == 2
\* highest volume of a candle
MaxVol == 1
\* highest VWAP value drawn when the crossover test is exercised on its own
MaxVal == 3

(* Program constants *)

\* limit = 6 (line 143), also the window of the daily VWAP (line 148)
limit == 6
\* risk_percentage = 0.5 (line 61), in tenths of a percent
risk_percentage_x10 == 5
\* rrr = 2 (line 62)
rrr == 2
\* the 0.1 of line 75 (10% of the balance), in percent
balance_share_pct == 10

Ids == 1..MaxOrders

----------------------------------------------------------------------------
(* Floats as rationals with NaN *)

NaN == <<0, 0>>

IsNaN(x) == x[2] = 0

\* a < b on floats: any comparison with NaN is False
FloatLt(a, b) == ~IsNaN(a) /\ ~IsNaN(b) /\ a[1] * b[2] < b[1] * a[2]

FloatGt(a, b) == FloatLt(b, a)

----------------------------------------------------------------------------
(* get_btc_data / calculate_vwap *)

\* the candles the market-data endpoint can return
CandleSet ==
    {[high |-> p, low |-> p, close |-> p, volume |-> v] :
        p \in 1..MaxPx, v \in 0..MaxVol}

\* 3 * Typical Price (line 44), kept as the numerator over 3
TypicalPrice3(c) == c.high + c.low + c.close

RECURSIVE SumTPV(_, _, _)
SumTPV(df, lo, hi) ==
    IF lo > hi THEN 0
    ELSE TypicalPrice3(df[hi]) * df[hi].volume + SumTPV(df, lo, hi - 1)

RECURSIVE SumVol(_, _, _)
SumVol(df, lo, hi) ==
    IF lo > hi THEN 0 ELSE df[hi].volume + SumVol(df, lo, hi - 1)

\* (variant: rolling sums over the rows available, as with min_periods = 1)
RollingVWAPPartial(df, period_candles, i) ==
    LET lo  == IF i < period_candles THEN 1 ELSE i - period_candles + 1
        num == SumTPV(df, lo, i)
        den == 3 * SumVol(df, lo, i)
    IN  IF den = 0 THEN NaN ELSE <<num, den>>

\* calculate_vwap(df, period_candles) at row i (1-based): the rolling sums
\* are NaN until the window is full, and 0.0 / 0.0 is NaN
RollingVWAP(df, period_candles, i) ==
    IF i < period_candles THEN NaN
    ELSE LET num == SumTPV(df, i - period_candles + 1, i)
             den == 3 * SumVol(df, i - period_candles + 1, i)
         IN  IF den = 0 THEN NaN ELSE <<num, den>>

\* lines 147-154 on a frame of at least two rows
ReadVwaps(df) ==
    LET n == Len(df)
    IN  [prev_4h    |-> RollingVWAP(df, 1, n - 1),
         curr_4h    |-> RollingVWAP(df, 1, n),
         prev_daily |-> RollingVWAP(df, limit, n - 1),
         curr_daily |-> RollingVWAP(df, limit, n)]

NoVwap == [prev_4h |-> NaN, curr_4h |-> NaN, prev_daily |-> NaN, curr_daily |-> NaN]

\* the frames get_btc_data can return for limit = 6: at most limit rows
Frames == UNION {[1..n -> CandleSet] : n \in 0..limit}

----------------------------------------------------------------------------
(* The exchange *)

NoOrder == [status |-> "None", price |-> 0, amount |-> 0, average |-> 0]

Placed == {i \in Ids : orders[i].status # "None"}

\* fetch_open_orders: the entry orders still open
OpenEntryIds == {i \in Ids : orders[i].status = "Open"}

\* fetch_closed_orders: the orders whose status is closed, i.e. filled
\* (canceled and rejected orders are in neither listing)
ClosedOrderIds == {i \in Ids : orders[i].status = "Filled"}

\* what one fetch_closed_orders call can answer: the filled orders, or a
\* listing served late that does not hold every one of them yet
ClosedListings == SUBSET ClosedOrderIds

LiveOcos == {k \in 1..Len(ocoReqs) : ocoReqs[k].state = "Live"}

\* has_open_order (lines 128-130): len(fetch_open_orders(symbol)) > 0
has_open_order == OpenEntryIds # {} \/ LiveOcos # {}

\* an entry that filled and that no exit has closed
OpenPositions ==
    {i \in Ids : /\ orders[i].status = "Filled"
                 /\ ~\E k \in 1..Len(ocoReqs) :
                        ocoReqs[k].entry = i /\ ocoReqs[k].state = "Done"}

\* a limit buy order fills at its limit price or at a better one
FillPrices(p) == {p, p - 1}

\* the exchange fills an open entry order; the order moves to the closed
\* listing of line 103 with the average price of its fill
Fill(i) ==
    /\ orders[i].status = "Open"
    /\ \E avg \in FillPrices(orders[i].price) :
         orders' = [orders EXCEPT ![i].status = "Filled", ![i].average = avg]
    /\ UNCHANGED <<loopVars, out, ocoReqs, execVars>>

Cancel(i) ==
    /\ orders[i].status = "Open"
    /\ orders' = [orders EXCEPT ![i].status = "Canceled"]
    /\ UNCHANGED <<loopVars, out, ocoReqs, execVars>>

Reject(i) ==
    /\ orders[i].status = "Open"
    /\ orders' = [orders EXCEPT ![i].status = "Rejected"]
    /\ UNCHANGED <<loopVars, out, ocoReqs, execVars>>

\* one leg of a live OCO fills and the sibling is canceled
ExitFill(k) ==
    /\ k \in LiveOcos
    /\ ocoReqs' = [ocoReqs EXCEPT ![k].state = "Done"]
    /\ UNCHANGED <<loopVars, out, orders, execVars>>

ExchangeEvent ==
    \/ \E i \in Ids : Fill(i)
    \/ \E i \in Ids : Cancel(i)
    \/ \E i \in Ids : Reject(i)
    \/ \E k \in 1..Len(ocoReqs) : ExitFill(k)

----------------------------------------------------------------------------
(* run_trading_bot *)

\* what a call of the loop body can raise
LoopFailures == {"NetworkError", "RateLimited", "AuthenticationError",
                 "ConnectionError", "ValueError", "IndexError", "NameError"}

\* "except Exception" (line 164): every failure above derives from Exception
\* (variant: a handler for the exchange's errors only)
CatchesOnlyNetwork(kind) == kind \in {"NetworkError", "RateLimited"}
Catches(kind) == kind \in LoopFailures

\* a failure raised inside the try block of lines 136-162
LoopRaise(kind) ==
    /\ exc' = kind
    /\ lpc' = IF Catches(kind) THEN "except" ELSE "crashed"

\* line 157: prev_4h_vwap < prev_daily_vwap and curr_4h_vwap > curr_daily_vwap
\* (variant: fast above slow now, whatever the previous values)
BullishNoPrevTest(v) == FloatGt(v.curr_4h, v.curr_daily)
BullishCrossover(v) ==
    FloatLt(v.prev_4h, v.prev_daily) /\ FloatGt(v.curr_4h, v.curr_daily)

\* the client signs a private request only when both credentials are set;
\* without one the call raises AuthenticationError before anything is sent
HasCredentials == env.api_key /\ env.api_secret

\* how a private call of the exchange client can fail
PrivateCallFailures ==
    IF HasCredentials THEN {"NetworkError", "RateLimited"}
    ELSE {"AuthenticationError"}

\* lines 9-17 and 170-172: os.getenv yields None for a variable that is not
\* set, the client is built with whatever it is given, and the loop starts
Construct ==
    /\ lpc = "start"
    /\ lpc' = "check"
    /\ UNCHANGED <<env, rows, exc, vwap, signal, out, orders, ocoReqs, execVars>>

\* line 137: has_open_order(); lines 138 and 140
CheckOpenOrder ==
    /\ lpc = "check"
    /\ \/ \E kind \in PrivateCallFailures :
            LoopRaise(kind) /\ UNCHANGED <<vwap, signal, out>>
       \/ /\ HasCredentials
          /\ has_open_order
          /\ out' = "OpenOrderExists"
          /\ UNCHANGED <<lpc, exc, vwap, signal>>
       \/ /\ HasCredentials
          /\ ~has_open_order
          /\ out' = "Fetching"
          /\ lpc' = "fetch"
          /\ UNCHANGED <<exc, vwap, signal>>
    /\ UNCHANGED <<env, rows, orders, ocoReqs, execVars>>

\* lines 143-154: get_btc_data, calculate_vwap twice, the four iloc reads
FetchAndCompute ==
    /\ lpc = "fetch"
    /\ \/ \E kind \in {"ConnectionError", "ValueError"} :
            LoopRaise(kind) /\ UNCHANGED <<vwap, rows>>
       \/ \E df \in Frames :
            /\ rows' = Len(df)
            /\ IF Len(df) < 2
               THEN LoopRaise("IndexError") /\ UNCHANGED vwap
               ELSE vwap' = ReadVwaps(df) /\ lpc' = "decide" /\ UNCHANGED exc
    /\ UNCHANGED <<env, signal, out, orders, ocoReqs, execVars>>

\* the names a function of the module can call unqualified: the imports of
\* lines 1-6 and the class of line 8 (create_order is a method, reached only
\* through self)
ModuleNames == {"os", "requests", "time", "ccxt", "pd", "TradingBot"}

\* (variant: any name resolves, as if the call were self.create_order())
NameResolvesAlways(name) == TRUE
NameResolves(name) == name \in ModuleNames

\* lines 157-159: the test, the message and the call create_order()
Decide ==
    /\ lpc = "decide"
    /\ IF BullishCrossover(vwap)
       THEN /\ signal' = "BullishCross"
            /\ out' = "BullishDetected"
            /\ IF NameResolves("create_order")
               THEN lpc' = "call" /\ epc' = "ticker" /\ UNCHANGED exc
               ELSE LoopRaise("NameError") /\ UNCHANGED epc
       ELSE /\ signal' = "NoSignal"
            /\ lpc' = "sleep"
            /\ UNCHANGED <<exc, out, epc>>
    /\ UNCHANGED <<env, rows, vwap, orders, ocoReqs, execLocals>>

\* line 162, then the next iteration: the values of this cycle are dead
Sleep ==
    /\ lpc = "sleep"
    /\ lpc' = "check"
    /\ vwap' = NoVwap
    /\ rows' = 0
    /\ signal' = "None"
    /\ UNCHANGED <<env, exc, out, orders, ocoReqs, execVars>>

\* lines 164-166: print the error, sleep, next iteration (Python unbinds e
\* when the except clause ends)
Handler ==
    /\ lpc = "except"
    /\ out' = "Error"
    /\ lpc' = "check"
    /\ exc' = "None"
    /\ vwap' = NoVwap
    /\ rows' = 0
    /\ signal' = "None"
    /\ UNCHANGED <<env, orders, ocoReqs, execVars>>

LoopStep == CheckOpenOrder \/ FetchAndCompute \/ Decide \/ Sleep \/ Handler

----------------------------------------------------------------------------
(* create_order *)

\* the last prices fetch_ticker can report and the USDT balances
Prices == {100, 200}
Balances == {10, 1000}

\* line 69: entry_price * (1 - risk_percentage / 100), in thousandths
StopLoss(p) == p * (1000 - risk_percentage_x10)

\* line 70: entry_price * (1 + risk_percentage * rrr / 100), in thousandths
\* (variant: the reward ratio left out)
TakeProfitNoRrr(p) == p * (1000 + risk_percentage_x10)
TakeProfit(p) == p * (1000 + risk_percentage_x10 * rrr)

\* line 75: (usdt_balance * 0.1) / entry_price, in thousandths
\* (variant: the whole balance)
TradeSizeWholeBalance(usdt_balance, p) == (usdt_balance * 1000) \div p
TradeSize(usdt_balance, p) == (usdt_balance * balance_share_pct * 10) \div p

\* how create_limit_buy_order can fail (line 81)
PlaceFailures == {"OrderRejected", "RateLimited", "NetworkError"}

\* what the placement call of line 81 can answer, whatever the amount (the
\* code has no minimum of its own and sends every quantity)
PlaceOutcomes == {"ok", "NullId", "NoId", "Empty"} \cup PlaceFailures

\* the local limit_order: not yet assigned, or the response of the exchange:
\* whether it is truthy (not None, not an empty dict), whether it has the key
\* "id", and the value under that key (0: None, an empty value)
Unbound == [bound |-> FALSE, truthy |-> FALSE, has_id |-> FALSE, id |-> 0]
Response(id) == [bound |-> TRUE, truthy |-> TRUE, has_id |-> TRUE, id |-> id]

\* a response without the key "id", and an empty response
NoIdResponse == [bound |-> TRUE, truthy |-> TRUE, has_id |-> FALSE, id |-> 0]
EmptyResponse == [bound |-> TRUE, truthy |-> FALSE, has_id |-> FALSE, id |-> 0]

\* the exchange numbers the orders it accepts
NextId == Cardinality(Placed) + 1

\* lines 87-88: the order must be bound, truthy and have the key "id"; the
\* value under the key is not looked at ("Unbound": the name was never
\* assigned, so reading it raises UnboundLocalError)
\* (variant: no check of the response)
VerifyOrderSkipped(lo) == TRUE
VerifyOrder(lo) == lo.bound /\ lo.truthy /\ lo.has_id

\* line 104: any(order["id"] == order_id for order in closed_orders)
\* (variant: an order that is no longer open counts as executed)
IsExecutedWhenNotOpen(id, closed_orders) == TRUE
IsExecuted(id, closed_orders) == id \in closed_orders

\* lines 123-124: 'except Exception' catches whatever the try block of line
\* 77 raises, an exchange error or the UnboundLocalError / Exception of lines
\* 87-88 alike
\* (variant: a handler for exchange errors only)
ExecCatchesExchangeErrors(kind) == kind \notin {"UnboundLocalError", "Exception"}
ExecCatches(kind) == TRUE

\* where create_order is after an exception inside the try block: printed
\* and returned normally when caught, left as an exception otherwise
ExecExit(kind) == IF ExecCatches(kind) THEN "returned" ELSE "raised"

\* a caller enters create_order (line 58): fresh locals
Invoke ==
    /\ epc \in {"idle", "returned", "raised"}
    /\ Cardinality(Placed) < MaxOrders
    /\ epc' = "ticker"
    /\ entry_price' = 0
    /\ stop_loss' = 0
    /\ take_profit' = 0
    /\ trade_size' = 0
    /\ limit_order' = Unbound
    /\ order_id' = 0
    /\ open_orders' = {}
    /\ placeLog' = <<>>
    /\ polled' = FALSE
    /\ ocoSent' = 0
    /\ UNCHANGED <<loopVars, out, orders, ocoReqs>>

\* lines 65-70: fetch_ticker is outside the try block, its failure leaves
\* create_order as an exception
FetchTicker ==
    /\ epc = "ticker"
    /\ \/ /\ epc' = "raised"
          /\ UNCHANGED <<entry_price, stop_loss, take_profit>>
       \/ \E p \in Prices :
            /\ entry_price' = p
            /\ stop_loss' = StopLoss(p)
            /\ take_profit' = TakeProfit(p)
            /\ epc' = "balance"
    /\ UNCHANGED <<loopVars, out, orders, ocoReqs, trade_size, limit_order,
                   order_id, open_orders, placeLog, polled, ocoSent>>

\* lines 73-75: fetch_balance is outside the try block too
FetchBalance ==
    /\ epc = "balance"
    /\ \/ epc' = "raised" /\ UNCHANGED trade_size
       \/ \E b \in Balances :
            /\ HasCredentials
            /\ trade_size' = TradeSize(b, entry_price)
            /\ epc' = "place"
    /\ UNCHANGED <<loopVars, out, orders, ocoReqs, entry_price, stop_loss,
                   take_profit, limit_order, order_id, open_orders, placeLog,
                   polled, ocoSent>>

\* lines 79-91, from the placement call to the first poll: the call's outcome
\* is an accepted order answered with its id ("ok") or with an empty id
\* ("NullId"), a response without the key "id", an empty response, or an
\* exception that the inner handler prints and drops; then the check of
\* lines 87-88
PlaceLimitOrder ==
    /\ epc = "place"
    /\ \E res \in PlaceOutcomes :
         LET lo == IF res = "ok" THEN Response(NextId)
                   ELSE IF res = "NullId" THEN Response(0)
                   ELSE IF res = "NoId" THEN NoIdResponse
                   ELSE IF res = "Empty" THEN EmptyResponse
                   ELSE limit_order
         IN  /\ placeLog' = Append(placeLog, res)
             /\ limit_order' = lo
             /\ orders' = IF res \in {"ok", "NullId"}
                          THEN [orders EXCEPT ![NextId] =
                                  [status |-> "Open", price |-> entry_price,
                                   amount |-> trade_size, average |-> 0]]
                          ELSE orders
             /\ IF VerifyOrder(lo)
                THEN /\ order_id' = lo.id
                     /\ out' = "LimitOrderPlaced"
                     /\ epc' = "poll_open"
                ELSE /\ order_id' = order_id
                     /\ out' = "Error"
                     /\ epc' = ExecExit(IF lo.bound THEN "Exception"
                                        ELSE "UnboundLocalError")
    /\ UNCHANGED <<loopVars, ocoReqs, entry_price, stop_loss, take_profit,
                   trade_size, open_orders, polled, ocoSent>>

\* line 96: fetch_open_orders; its failure is caught at line 123
PollOpen ==
    /\ epc = "poll_open"
    /\ polled' = TRUE
    /\ \/ /\ out' = "Error"
          /\ epc' = ExecExit("NetworkError")
          /\ UNCHANGED open_orders
       \/ /\ open_orders' = OpenEntryIds
          /\ epc' = "poll_check"
          /\ UNCHANGED out
    /\ UNCHANGED <<loopVars, orders, ocoReqs, entry_price, stop_loss,
                   take_profit, trade_size, limit_order, order_id, placeLog,
                   ocoSent>>

\* lines 99-101: still open means another round, without a pause
PollCheck ==
    /\ epc = "poll_check"
    /\ IF order_id \in open_orders
       THEN out' = "StillOpen" /\ epc' = "poll_open"
       ELSE out' = out /\ epc' = "poll_closed"
    /\ UNCHANGED <<loopVars, orders, ocoReqs, entry_price, stop_loss,
                   take_profit, trade_size, limit_order, order_id, open_orders,
                   placeLog, polled, ocoSent>>

\* lines 103-108: fetch_closed_orders and the test for the order's id
PollClosed ==
    /\ epc = "poll_closed"
    /\ \/ out' = "Error" /\ epc' = ExecExit("NetworkError")
       \/ \E closed_orders \in ClosedListings :
            IF IsExecuted(order_id, closed_orders)
            THEN out' = "Executed" /\ epc' = "oco"
            ELSE out' = "NotClosedYet" /\ epc' = "poll_open"
    /\ UNCHANGED <<loopVars, orders, ocoReqs, entry_price, stop_loss,
                   take_profit, trade_size, limit_order, order_id, open_orders,
                   placeLog, polled, ocoSent>>

\* lines 111-124: one OCO sell order (take-profit leg at price, stop-loss leg
\* at stopPrice); accepted or refused, create_order returns
PlaceOco ==
    /\ epc = "oco"
    /\ \E st \in {"Live", "Refused"} :
         /\ ocoReqs' = Append(ocoReqs,
                [entry |-> order_id, amount |-> trade_size,
                 price |-> take_profit, stopPrice |-> stop_loss, state |-> st])
         /\ out' = IF st = "Live" THEN "ExitSet" ELSE "Error"
         /\ epc' = IF st = "Live" THEN "returned" ELSE ExecExit("OrderRejected")
    /\ ocoSent' = ocoSent + 1
    /\ UNCHANGED <<loopVars, orders, entry_price, stop_loss, take_profit,
                   trade_size, limit_order, order_id, open_orders, placeLog,
                   polled>>

ExecStep ==
    \/ FetchTicker
    \/ FetchBalance
    \/ PlaceLimitOrder
    \/ PollOpen
    \/ PollCheck
    \/ PollClosed
    \/ PlaceOco

----------------------------------------------------------------------------
(* Initial states *)

ExecIdle ==
    /\ epc = "idle"
    /\ entry_price = 0
    /\ stop_loss = 0
    /\ take_profit = 0
    /\ trade_size = 0
    /\ limit_order = Unbound
    /\ order_id = 0
    /\ open_orders = {}
    /\ placeLog = <<>>
    /\ polled = FALSE
    /\ ocoSent = 0

\* the account as a start of the bot can find it: empty, or with one entry
\* order of an earlier run that is open, filled without an exit, or filled
\* with a live exit
Accounts ==
    LET one(st) == [i \in Ids |->
                      IF i = 1 THEN [status |-> st, price |-> 100, amount |-> 1000,
                                     average |-> IF st = "Filled" THEN 100 ELSE 0]
                      ELSE NoOrder]
        exit == [entry |-> 1, amount |-> 1000, price |-> 101000,
                 stopPrice |-> 99500, state |-> "Live"]
    IN  {<<[i \in Ids |-> NoOrder], <<>>>>,
         <<one("Open"), <<>>>>,
         <<one("Filled"), <<>>>>,
         <<one("Filled"), <<exit>>>>}

\* __main__ (lines 169-172) before TradingBot() is constructed: the environment
\* sets or lacks each credential variable, the account is as an earlier run
\* left it
Init ==
    /\ env \in [api_key : BOOLEAN, api_secret : BOOLEAN]
    /\ lpc = "start"
    /\ rows = 0
    /\ exc = "None"
    /\ vwap = NoVwap
    /\ signal = "None"
    /\ out = "None"
    /\ \E a \in Accounts : orders = a[1] /\ ocoReqs = a[2]
    /\ ExecIdle

Next == Construct \/ LoopStep \/ ExchangeEvent

Spec == Init /\ [][Next]_vars

\* the test of lines 157-159 on its own: the loop stands at line 157 with any
\* four VWAP values, NaN included. These are more states than the loop can
\* reach (on its frames of at most six rows prev_daily_vwap is always NaN), so
\* this specification serves only properties that hold for all four values
VwapValues == {NaN} \cup {<<n, 1>> : n \in 1..MaxVal}

InitDecision ==
    /\ env = [api_key |-> TRUE, api_secret |-> TRUE]
    /\ lpc = "decide"
    /\ rows = 0
    /\ exc = "None"
    /\ vwap \in [prev_4h : VwapValues, curr_4h : VwapValues,
                 prev_daily : VwapValues, curr_daily : VwapValues]
    /\ signal = "None"
    /\ out = "Fetching"
    /\ \E a \in Accounts : orders = a[1] /\ ocoReqs = a[2]
    /\ ~has_open_order
    /\ ExecIdle

SpecDecision == InitDecision /\ [][LoopStep]_vars

\* create_order called on a bot whose account holds no order yet
InitExecutor ==
    /\ env \in [api_key : BOOLEAN, api_secret : BOOLEAN]
    /\ lpc = "check"
    /\ rows = 0
    /\ exc = "None"
    /\ vwap = NoVwap
    /\ signal = "None"
    /\ out = "None"
    /\ orders = [i \in Ids |-> NoOrder]
    /\ ocoReqs = <<>>
    /\ ExecIdle

NextExecutor == Invoke \/ ExecStep \/ ExchangeEvent

SpecExecutor == InitExecutor /\ [][NextExecutor]_vars

\* the executor is sequential code: it always takes its next step
FairSpecExecutor == SpecExecutor /\ WF_vars(ExecStep)

----------------------------------------------------------------------------
(* Claims *)

\* C1: every failure raised inside a cycle of run_trading_bot (by the
\* open-order check, the candle fetch, the VWAP and signal computation or the
\* call of the executor) is caught by the loop's handler and logged, and the
\* loop goes on to the next cycle: no failure ends the loop.
C1_FailuresCaught ==
    /\ [](lpc # "crashed")
    /\ [][exc' # exc /\ exc' # "None" => lpc' = "except"]_vars
    /\ [][lpc = "except" /\ lpc' # lpc => lpc' = "check" /\ out' = "Error"]_vars

\* a failure was caught and logged and the loop stands at its next cycle
C1_Witness == lpc = "check" /\ out = "Error" /\ exc = "None"

\* C2: at most one position is open for the symbol at any time, and while a
\* position is open (an entry has filled and no exit has closed it) neither an
\* invocation of the executor nor a cycle of the loop submits an entry order.
C2_OnePosition ==
    /\ [](Cardinality(OpenPositions) <= 1)
    /\ [][OpenPositions # {} => Placed' = Placed]_vars

C4_SignalIffStrictCross ==
    signal # "None" =>
        LET num(x) == x[2] # 0
            less(a, b) == num(a) /\ num(b) /\ a[1] * b[2] < b[1] * a[2]
            same(a, b) == num(a) /\ num(b) /\ a[1] * b[2] = b[1] * a[2]
            pf == vwap.prev_4h
            cf == vwap.curr_4h
            ps == vwap.prev_daily
            cs == vwap.curr_daily
        IN  /\ signal \in {"BullishCross", "NoSignal"}
            /\ (signal = "BullishCross") <=> (less(pf, ps) /\ less(cs, cf))
            /\ (less(ps, pf) /\ less(cs, cf)) => signal = "NoSignal"
            /\ (same(pf, ps) \/ same(cf, cs)) => signal = "NoSignal"

\* the test of line 157 was taken on a strict crossover
C4_Witness ==
    /\ signal = "BullishCross"
    /\ vwap.prev_4h[1] * vwap.prev_daily[2] < vwap.prev_daily[1] * vwap.prev_4h[2]

\* the executor is between the acceptance of its entry order and its return
Tracking(i) ==
    epc \in {"poll_open", "poll_check", "poll_closed", "oco"} /\ order_id = i

OcosFor(i) == {k \in 1..Len(ocoReqs) : ocoReqs[k].entry = i}

\* C5: an invocation submits the exit bracket at most once, one OCO order with
\* a take-profit and a stop-loss leg per entry, and every entry order that
\* has filled gets its exit bracket: once the executor no longer tracks a
\* filled entry, the bracket for it has been submitted.
C5_FilledEntryGetsBracket ==
    /\ ocoSent <= 1
    /\ \A i \in Ids :
         /\ Cardinality(OcosFor(i)) <= 1
         /\ (orders[i].status = "Filled" /\ ~Tracking(i)) => OcosFor(i) # {}

\* C6: the exit prices are takeProfit = entryPrice * 101 / 100 and
\* stopLoss = entryPrice * 995 / 1000 of the entry limit order's price (here
\* in thousandths); an entry at 100 gives 101.0 and 99.5.
C6_ExitPrices ==
    \A k \in 1..Len(ocoReqs) :
        ocoReqs[k].entry \in Ids =>
            LET e == orders[ocoReqs[k].entry].price
            IN  /\ ocoReqs[k].price * 100 = e * 101 * 1000
                /\ ocoReqs[k].stopPrice * 1000 = e * 995 * 1000
                /\ e = 100 => /\ ocoReqs[k].price = 101000
                              /\ ocoReqs[k].stopPrice = 99500

\* an exit was submitted for an entry placed at 100
C6_Witness ==
    \E k \in 1..Len(ocoReqs) :
        /\ ocoReqs[k].entry \in Ids
        /\ orders[ocoReqs[k].entry].price = 100
        /\ ocoReqs[k].price = 101000

\* C7: an exit order is submitted only for an entry order whose status is
\* Filled: never while the entry is Open, Canceled or Rejected, and never
\* when a listing could not be obtained.
C7_ExitOnlyAfterConfirmedFill ==
    /\ \A k \in 1..Len(ocoReqs) :
         /\ ocoReqs[k].entry \in Ids
         /\ orders[ocoReqs[k].entry].status = "Filled"
    /\ epc = "oco" => order_id \in Ids /\ orders[order_id].status = "Filled"

\* the executor saw its entry in the closed listing and submitted the exit
C7_Witness ==
    /\ epc = "returned"
    /\ ocoSent = 1
    /\ order_id \in Ids
    /\ orders[order_id].status = "Filled"
    /\ \E k \in 1..Len(ocoReqs) : ocoReqs[k].entry = order_id

\* the executor is polling an entry order that is open
PollingOpenEntry ==
    /\ epc \in {"poll_open", "poll_check", "poll_closed"}
    /\ order_id \in Ids
    /\ orders[order_id].status = "Open"

\* C8: polling is bounded: the executor never polls an entry order that stays
\* Open for ever; it cancels it and returns control to its caller.
C8_PollingBounded == []<>~PollingOpenEntry

\* C9: a placement refused with OrderRejected ends the invocation at once:
\* the placement call was made exactly once, no order listing was queried and
\* no exit order was submitted.
C9_RejectedFailsAtOnce ==
    (\E n \in 1..Len(placeLog) : placeLog[n] = "OrderRejected") =>
        /\ Len(placeLog) = 1
        /\ epc = "returned"
        /\ ~polled
        /\ ocoSent = 0
        /\ order_id = 0

\* an invocation returned after its placement was rejected
C9_Witness ==
    placeLog = <<"OrderRejected">> /\ epc = "returned" /\ out = "Error"

\* C10: a placement that fails with a transient error (RateLimited,
\* NetworkError) is retried within the same invocation: the executor gives up
\* on a transient failure only after its third attempt.
C10_TransientRetried ==
    (/\ epc = "returned"
     /\ placeLog # <<>>
     /\ placeLog[Len(placeLog)] \in {"RateLimited", "NetworkError"})
        => Len(placeLog) = 3

\* C11: every live entry order (accepted by the exchange, not yet filled,
\* canceled or rejected) is tracked by the executor: while the order is Open
\* an invocation holds its id and is polling it, also after a listing call
\* raised during polling.
C11_LiveEntryTracked ==
    \A i \in Ids : orders[i].status = "Open" => Tracking(i)

\* C12: restart reconciliation: once the loop has seen the open entry order
\* an earlier run left on the exchange, and while that order is still open,
\* the executor is polling it; and the loop submits no entry order of its own.
C12_RestartResumesPolling ==
    /\ (out = "OpenOrderExists" /\ OpenEntryIds # {}) =>
           \A i \in OpenEntryIds : Tracking(i)
    /\ Placed \subseteq {1}

\* C13: a bracket whose exit submission failed is not abandoned after one
\* attempt: an invocation that returns with its last exit submission refused
\* has submitted the exit more than once.
C13_FailedExitRetried ==
    (/\ epc = "returned"
     /\ ocoSent > 0
     /\ ocoReqs[Len(ocoReqs)].state = "Refused")
        => ocoSent > 1

\* a quantity below a minimum order size of 0.1 (in thousandths)
BelowMinimum(amount) == amount < 100

\* C14: an attempt whose computed quantity is below the minimum order size of
\* the exchange is aborted before any entry order is submitted: no placement
\* call is made with such a quantity.
C14_NoOrderBelowMinimum ==
    placeLog # <<>> => ~BelowMinimum(trade_size)

\* C15: a missing credential is fatal at startup: with either environment
\* variable unset the loop never begins its first cycle, and the missing
\* credential never shows up as the failure of a cycle.
C15_MissingCredentialFatal ==
    ~HasCredentials => lpc = "start" /\ exc # "AuthenticationError"

\* C16: the signal is never evaluated on a partial series: whenever the test
\* of line 157 has been evaluated in a cycle, the frame fetched in that cycle
\* had the six candles requested.
C16_NoSignalOnPartialSeries ==
    signal # "None" => rows = limit

\* C17: fixed cadence: every step that ends a cycle and takes the loop back
\* to the open-order check of the next cycle is a step that slept (line 162
\* or line 166).
C17_DelayEveryCycle ==
    [][(/\ lpc' = "check"
        /\ lpc # "start"
        /\ (lpc # "check" \/ out' # out))
          => lpc \in {"sleep", "except"}]_vars

\* the executor is polling an entry order that was canceled or rejected
PollingDeadEntry ==
    /\ epc \in {"poll_open", "poll_check", "poll_closed"}
    /\ order_id \in Ids
    /\ orders[order_id].status \in {"Canceled", "Rejected"}

\* C18: an invocation whose entry order was canceled or rejected while it
\* was polling leaves the polling loop and terminates.
C18_FinalStatusTerminates == PollingDeadEntry ~> (epc = "returned")

\* C19: run_trading_bot sends no order-placement request: the executor is
\* never entered (the bullish branch fails on the bare name create_order and
\* the handler catches it), no entry order and no exit order is added.
C19_LoopPlacesNothing ==
    /\ [](epc = "idle" /\ lpc # "call" /\ placeLog = <<>> /\ ocoSent = 0)
    /\ [][signal' = "BullishCross" /\ signal # "BullishCross" =>
              lpc' = "except" /\ exc' = "NameError"]_vars
    /\ [][Placed' = Placed /\ Len(ocoReqs') = Len(ocoReqs)]_vars

\* the bullish branch was taken and its call failed on the name
C19_Witness ==
    /\ signal = "BullishCross"
    /\ out = "BullishDetected"
    /\ lpc = "except"
    /\ exc = "NameError"
    /\ epc = "idle"

\* C20: on the frames of at most six candles that the loop fetches, the slow
\* VWAP is undefined at the previous index and defined at most at the last
\* index of a full frame, so the bullish test is false in every cycle and the
\* bullish branch is never taken.
C20_BullishNeverTaken ==
    /\ IsNaN(vwap.prev_daily)
    /\ ~IsNaN(vwap.curr_daily) => rows = limit
    /\ signal # "BullishCross"
    /\ exc # "NameError"

\* a full frame whose fast VWAP is above the slow one at the last index, and
\* the test of line 157 answered no
C20_Witness ==
    /\ rows = limit
    /\ signal = "NoSignal"
    /\ ~IsNaN(vwap.prev_4h)
    /\ FloatGt(vwap.curr_4h, vwap.curr_daily)

\* C21: a placement call that raises is swallowed: the order variable stays
\* unassigned, create_order returns normally (it does not raise), it has
\* queried no order listing and submitted no exit order; and a completed
\* bracket ends in the same way, by a normal return.
C21_PlacementFailureSwallowed ==
    /\ (placeLog # <<>> /\ placeLog[Len(placeLog)] \in PlaceFailures) =>
           /\ epc = "returned"
           /\ limit_order = Unbound
           /\ ~polled
           /\ ocoSent = 0
    /\ ocoSent > 0 => epc = "returned"

\* an invocation whose placement call raised a network error has returned
C21_Witness ==
    /\ placeLog = <<"NetworkError">>
    /\ epc = "returned"
    /\ limit_order = Unbound
    /\ orders = [i \in Ids |-> NoOrder]

\* C22: within one invocation the OCO order asks for the quantity requested
\* in the entry order, a tenth of the balance over the ticker price, and the
\* limit price, the stop-loss (0.5 % below) and the take-profit (1 % above)
\* all come from the one ticker price read at line 66; the price at which
\* the entry actually filled changes none of them.
C22_ExitsFromRequestedEntry ==
    /\ \A k \in 1..Len(ocoReqs) :
         LET e == orders[ocoReqs[k].entry]
         IN  /\ ocoReqs[k].amount = e.amount
             /\ ocoReqs[k].price = e.price * 1010
             /\ ocoReqs[k].stopPrice = e.price * 995
    /\ epc \in {"balance", "place", "poll_open", "poll_check", "poll_closed", "oco"} =>
         /\ stop_loss = entry_price * 995
         /\ take_profit = entry_price * 1010
    /\ epc \in {"place", "poll_open", "poll_check", "poll_closed", "oco"} =>
         \E b \in Balances : trade_size = (b * 100) \div entry_price
    /\ \A i \in Ids : Tracking(i) =>
         orders[i].price = entry_price /\ orders[i].amount = trade_size

\* an exit order was submitted for an entry that filled below its limit price
C22_Witness ==
    \E k \in 1..Len(ocoReqs) :
        LET e == orders[ocoReqs[k].entry]
        IN  /\ e.status = "Filled"
            /\ e.average < e.price
            /\ ocoReqs[k].price = e.price * 1010
            /\ ocoReqs[k].amount = e.amount

====
